---- MODULE Spec2Model ----
(***************************************************************************)
(* Model of refer_win/Elsevier_crawler.py: the startup, the per-record      *)
(* acquisition and consolidation loop, the full-text field probing, the    *)
(* HTML cleaning function, the supplementary-material harvester, the       *)
(* archive expansion / filter / normalisation of the scratch directory     *)
(* and the naming of the output file.                                      *)
(*                                                                         *)
(* Text is a sequence of one-character strings.  Python exceptions that    *)
(* no handler catches end the script: the driver goes to pc = "Crashed".   *)
(***************************************************************************)
EXTENDS Integers, Sequences, FiniteSets, TLC

VARIABLES
    \* ---- the per-record loop (lines 330-504)
    worklist,           \* zip(ccdc_codes, dois, article_urls)
    idx,                \* 1-based position of the loop in the worklist
    pc,                 \* position inside the loop body
    full_text_content,  \* manuscript text of the current record
    supporting,         \* supporting_materials_html_content
    dirs,               \* record labels whose directory exists under download_dir
    scratch,            \* kinds of files at the top of the current scratch directory
    htmlFiles,          \* labels whose <label>.html exists in download_dir
    txtFiles,           \* label -> content of <label>.txt in download_dir
    written,            \* row index -> number of times its .txt was written
    browser,            \* number of Chrome sessions that are open
    raised,             \* stage whose exception ended the script, or "none"
    config_json,        \* what is found at config_path when the script starts
    pathe_json,         \* what is found at the path of the pattern file
    \* ---- remove_between_elsevier applied to one input
    san_in, san_out, san_pc,
    san_twice,          \* the function applied to its own result
    \* ---- the field probing applied to one doc.data
    doc_data, probe_out, probe_pc,
    \* ---- download_supporting_materials on one rendered page (lines 204-257)
    h_rules,            \* the locators of dynamic_patterns, in file order
    h_pc,               \* position inside the function
    h_rule,             \* position of the outer loop
    h_elems,            \* len(elements) of the current rule
    h_elem,             \* position of the inner loop
    h_visited,          \* rules the outer loop has taken up
    h_found,            \* rule -> number of elements its lookup returned, -1: none
    h_seen,             \* <<rule, element>> pairs the inner loop has taken up
    h_failed,           \* <<rule, element>> whose handling failed (element 0: the rule)
    h_files,            \* <<rule, element>> whose file was written to the directory
    \* ---- one scratch directory from line 439 to line 455
    fs_files,           \* path below full_path -> content of the file there
    fs_dirs,            \* paths of the directories below full_path, <<>> is full_path
    f_pc,               \* position in lines 439-455
    f_zips,             \* zip_files still to be handed to unzip_file
    f_stack,            \* the calls of unzip_file in progress, innermost first
    f_expanded,         \* <<zip_path, extract_to>> of every extractall that succeeded
    f_skipped,          \* zip_path of every call that reported and gave up
    f_after,            \* paths of the files as ExpandArchives left them
    f_todo,             \* names os.listdir returned and the loop has not taken up
    f_attempted,        \* paths handed to the converter or to the text extraction
    f_html,             \* html_contents, one entry per PDF read
    f_launched,         \* number of start_libreoffice calls
    \* ---- the naming of the output of lines 470-489 for two labels
    nm_codes,           \* the two values of code
    nm_paths,           \* txt_file_path computed for each
    nm_pc

dvars == <<worklist, idx, pc, full_text_content, supporting, dirs, scratch,
           htmlFiles, txtFiles, written, browser, raised, config_json,
           pathe_json>>
svars == <<san_in, san_out, san_pc, san_twice>>
pvars == <<doc_data, probe_out, probe_pc>>
hvars == <<h_rules, h_pc, h_rule, h_elems, h_elem, h_visited, h_found, h_seen,
           h_failed, h_files>>
fvars == <<fs_files, fs_dirs, f_pc, f_zips, f_stack, f_expanded, f_skipped,
           f_after, f_todo, f_attempted, f_html, f_launched>>
nvars == <<nm_codes, nm_paths, nm_pc>>
vars  == <<dvars, svars, pvars, hvars, fvars, nvars>>
\* what each part of the model leaves alone
notloop    == <<svars, pvars, hvars, fvars, nvars>>
notsan     == <<dvars, pvars, hvars, fvars, nvars>>
notprobe   == <<dvars, svars, hvars, fvars, nvars>>
notharvest == <<dvars, svars, pvars, fvars, nvars>>
notfs      == <<dvars, svars, pvars, hvars, nvars>>
notnaming  == <<dvars, svars, pvars, hvars, fvars>>

-----------------------------------------------------------------------------
(* Bounds *)
MaxRows   == 2      \* rows of the worklist
MaxPieces == 4      \* pieces concatenated into an input of the cleaning function
MaxRules  == 2      \* entries of dynamic_patterns
MaxElems  == 2      \* elements one locator matches
MaxNest   == 3      \* archives nested inside one another
MaxDepth  == 2      \* the same, where every behaviour is followed to its end

-----------------------------------------------------------------------------
(* Text helpers *)

Min(S) == CHOOSE x \in S : \A y \in S : x <= y

\* characters matched by the regular expression class \s (and stripped by str.strip)
Whitespace == {" ", "\n", "\t"}

\* re.IGNORECASE on the letters of the marker
Lower(c) ==
    CASE c = "E" -> "e" [] c = "L" -> "l" [] c = "S" -> "s"
      [] c = "V" -> "v" [] c = "I" -> "i" [] c = "R" -> "r"
      [] OTHER -> c

\* the literal of the pattern at line 50
Marker == <<"e", "l", "s", "e", "v", "i", "e", "r">>

\* the literal matches at position i of s, ignoring case
MatchAt(s, i) ==
    /\ i >= 1
    /\ i + Len(Marker) - 1 <= Len(s)
    /\ \A k \in 1..Len(Marker) : Lower(s[i + k - 1]) = Marker[k]

\* a plausible slip: r'\s\s' instead of r'\s+', two whitespace characters
\* become one space
RECURSIVE CollapseWsPairs(_)
CollapseWsPairs(s) ==
    IF s = <<>> THEN <<>>
    ELSE IF Head(s) \in Whitespace /\ Len(s) > 1 /\ s[2] \in Whitespace
         THEN <<" ">> \o CollapseWsPairs(SubSeq(s, 3, Len(s)))
         ELSE <<Head(s)>> \o CollapseWsPairs(Tail(s))

\* re.sub(r'\s+', ' ', s): every maximal whitespace run becomes one space
RECURSIVE CollapseWs(_)
CollapseWs(s) ==
    IF s = <<>> THEN <<>>
    ELSE IF Head(s) \in Whitespace
         THEN IF Len(s) > 1 /\ s[2] \in Whitespace
              THEN CollapseWs(Tail(s))
              ELSE <<" ">> \o CollapseWs(Tail(s))
         ELSE <<Head(s)>> \o CollapseWs(Tail(s))

\* str.strip(): leading and trailing whitespace removed
RECURSIVE StripLeft(_)
StripLeft(s) ==
    IF s # <<>> /\ Head(s) \in Whitespace THEN StripLeft(Tail(s)) ELSE s

RECURSIVE StripRight(_)
StripRight(s) ==
    IF s # <<>> /\ s[Len(s)] \in Whitespace
    THEN StripRight(SubSeq(s, 1, Len(s) - 1))
    ELSE s

Strip(s) == StripRight(StripLeft(s))

\* pattern.sub('', html, count=1) for r'elsevier.*?elsevier' with DOTALL:
\* the leftmost position where the pattern matches, the lazy .*? stopping at
\* the nearest later literal; one substitution only
SubOnce(html) ==
    LET starts == {i \in 1..Len(html) :
                     /\ MatchAt(html, i)
                     /\ \E j \in (i + Len(Marker))..Len(html) : MatchAt(html, j)}
    IN  IF starts = {} THEN html
        ELSE LET i == Min(starts)
                 j == Min({k \in (i + Len(Marker))..Len(html) : MatchAt(html, k)})
             IN  SubSeq(html, 1, i - 1) \o
                 SubSeq(html, j + Len(Marker), Len(html))

\* a plausible slip: the greedy .* instead of the lazy .*?
remove_between_elsevier_greedy(html) ==
    LET starts == {i \in 1..Len(html) :
                     /\ MatchAt(html, i)
                     /\ \E j \in (i + Len(Marker))..Len(html) : MatchAt(html, j)}
    IN  IF starts = {} THEN Strip(CollapseWs(html))
        ELSE LET i == Min(starts)
                 j == CHOOSE k \in (i + Len(Marker))..Len(html) :
                        /\ MatchAt(html, k)
                        /\ \A m \in (i + Len(Marker))..Len(html) :
                              MatchAt(html, m) => m <= k
             IN  Strip(CollapseWs(SubSeq(html, 1, i - 1) \o
                                  SubSeq(html, j + Len(Marker), Len(html))))

\* lines 45-53
remove_between_elsevier(html) == Strip(CollapseWs(SubOnce(html)))

-----------------------------------------------------------------------------
(* Full-text field probing, lines 353-381 *)

\* a field of the response: absent, a string, a dict with the '$' key
\* (kind "dict$", text = its value) or another non-empty dict
Absent == [kind |-> "absent", text |-> <<>>]

FieldValues(tag) ==
    {Absent,
     [kind |-> "str",   text |-> <<>>],
     [kind |-> "str",   text |-> <<tag>>],
     [kind |-> "dict$", text |-> <<tag>>],
     [kind |-> "dict",  text |-> <<tag>>]}

Present(v) == v.kind # "absent"

NoWrapper == [present |-> FALSE, originalText |-> Absent, originalTextHtml |-> Absent]

\* doc.data: the optional 'full-text-retrieval-response' wrapper and the two
\* top-level fields; the tags tell the four fields apart
DocShapesT(t1, t2, t3, t4) ==
    [ftrr : {NoWrapper} \cup
            [present : {TRUE}, originalText : FieldValues(t1),
             originalTextHtml : FieldValues(t2)],
     originalText : FieldValues(t3),
     originalTextHtml : FieldValues(t4)]

DocShapes == DocShapesT("1", "2", "3", "4")

\* a plausible slip: the html field probed before the text field
ProbeHtmlFirst(data) ==
    IF data.ftrr.present
    THEN IF Present(data.ftrr.originalTextHtml) THEN data.ftrr.originalTextHtml
         ELSE IF Present(data.ftrr.originalText) THEN data.ftrr.originalText
         ELSE Absent
    ELSE IF Present(data.originalTextHtml) THEN data.originalTextHtml
    ELSE IF Present(data.originalText) THEN data.originalText
    ELSE Absent

\* lines 355-365: full_text, Absent standing for None
ProbeField(data) ==
    IF data.ftrr.present
    THEN IF Present(data.ftrr.originalText) THEN data.ftrr.originalText
         ELSE IF Present(data.ftrr.originalTextHtml) THEN data.ftrr.originalTextHtml
         ELSE Absent
    ELSE IF Present(data.originalText) THEN data.originalText
    ELSE IF Present(data.originalTextHtml) THEN data.originalTextHtml
    ELSE Absent

\* truth value of full_text at line 367: None and '' are false
Truthy(v) == Present(v) /\ ~(v.kind = "str" /\ v.text = <<>>)

\* json.dumps of a dict
JsonDumps(v) == <<"{">> \o v.text \o <<"}">>

\* lines 368-377: the text taken from the selected value
ValueText(v) ==
    CASE v.kind = "dict$" -> v.text
      [] v.kind = "dict"  -> JsonDumps(v)
      [] OTHER            -> v.text

\* lines 355-381: what the block leaves in full_text_content; the empty
\* text is the "not available" result
FullTextContent(data) ==
    LET full_text == ProbeField(data)
    IN  IF Truthy(full_text) THEN ValueText(full_text) ELSE <<>>

-----------------------------------------------------------------------------
(* The per-record loop, lines 330-504 *)

Labels    == {"L1", "L2"}
\* a DOI cell: a non-string (empty cells are read as NaN), blank, or a DOI
DoiValues == {"NaN", "blank", "doi"}
Rows      == [code : Labels, doi : DoiValues, url : {"url"}]

RECURSIVE Worklists(_)
Worklists(n) ==
    IF n = 0 THEN {<<>>}
    ELSE Worklists(n - 1) \cup
         {Append(w, r) : w \in {x \in Worklists(n - 1) : Len(x) = n - 1}, r \in Rows}

\* kinds of files at the top of a scratch directory
FileKinds == {"zip", "doc", "pdf", "other"}
\* remove_else_file, line 191
AllowedKinds == {"pdf", "doc"}

\* responses the loop can read: every shape, one text
LoopDocs == DocShapesT("T", "T", "T", "T")

NoFile == [exists |-> FALSE, content |-> <<>>]

HtmlHead ==
    <<"<", "h", "t", "m", "l", ">", "<", "b", "o", "d", "y", ">", "\n", "<",
    "h", "1", ">", "M", "a", "n", "u", "s", "c", "r", "i", "p", "t", "<",
    "/", "h", "1", ">", "\n">>

HtmlMid ==
    <<"\n", "<", "h", "1", ">", "S", "u", "p", "p", "l", "e", "m", "e", "n",
    "t", "a", "r", "y", "<", "/", "h", "1", ">", "\n">>

HtmlTail ==
    <<"\n", "<", "/", "b", "o", "d", "y", ">", "<", "/", "h", "t", "m", "l",
    ">">>

\* lines 461-467
Combined(full, supp) == HtmlHead \o full \o HtmlMid \o supp \o HtmlTail

\* text extracted from the PDFs of a scratch directory
SuppText == <<"S">>

code == worklist[idx].code

\* an exception no handler catches ends the script
Raise(stage) == pc' = "Crashed" /\ raised' = stage

-----------------------------------------------------------------------------
(* Stages of the loop body.  Each calls into the network, a browser, the     *)
(* file system or a child process; an outcome is drawn for every such call. *)

\* what a JSON configuration file can be when it is opened
FileStates == {"ok", "missing", "malformed", "nokey"}

\* lines 130-159: the API key is read before anything else; without the
\* file, with a file that is no JSON or without a key in it the script
\* calls exit().  Then the worklist is read and the loop is entered.
Startup ==
    /\ pc = "Startup"
    /\ pc' = IF config_json # "ok" THEN "Exited"
             ELSE IF worklist = <<>> THEN "Done"
             ELSE "RetrieveFullText"
    /\ UNCHANGED <<worklist, idx, full_text_content, supporting, dirs, scratch,
                   htmlFiles, txtFiles, written, browser, raised>>
    /\ UNCHANGED <<config_json, pathe_json, notloop>>

\* lines 333-386
RetrieveFullText ==
    /\ pc = "RetrieveFullText"
    /\ LET doi == worklist[idx].doi IN
       \/ \* line 334: float has no strip(); AttributeError
          /\ doi = "NaN"
          /\ Raise("RetrieveFullText")
          /\ UNCHANGED full_text_content
       \/ \* lines 335-337
          /\ doi = "blank"
          /\ full_text_content' = <<>>
          /\ pc' = "PrepareScratch"
          /\ UNCHANGED raised
       \/ \* lines 341-350 and 385-386: building the client failed, client = None
          /\ doi = "doi"
          /\ full_text_content' = <<>>
          /\ pc' = "PrepareScratch"
          /\ UNCHANGED raised
       \/ \* lines 353-354: FullDoc.read is called outside any try
          /\ doi = "doi"
          /\ Raise("RetrieveFullText")
          /\ UNCHANGED full_text_content
       \/ \* lines 382-384: read returned False
          /\ doi = "doi"
          /\ full_text_content' = <<>>
          /\ pc' = "PrepareScratch"
          /\ UNCHANGED raised
       \/ \* lines 354-381: read returned True
          /\ doi = "doi"
          /\ \E data \in LoopDocs :
                full_text_content' = FullTextContent(data)
          /\ pc' = "PrepareScratch"
          /\ UNCHANGED raised
    /\ UNCHANGED <<worklist, idx, supporting, dirs, scratch, htmlFiles, txtFiles,
                   written, browser>>
    /\ UNCHANGED <<config_json, pathe_json, notloop>>

\* lines 388-394
PrepareScratch ==
    /\ pc = "PrepareScratch"
    /\ \/ /\ code \notin dirs
          /\ dirs' = dirs \cup {code}
          /\ scratch' = {}
          /\ pc' = "AcquireSession"
          /\ UNCHANGED raised
       \/ \* os.makedirs raises OSError
          /\ code \notin dirs
          /\ Raise("PrepareScratch")
          /\ UNCHANGED <<dirs, scratch>>
       \/ \* lines 393-394: the directory is there, with whatever it holds
          /\ code \in dirs
          /\ scratch' \in SUBSET FileKinds
          /\ pc' = "AcquireSession"
          /\ UNCHANGED <<dirs, raised>>
    /\ UNCHANGED <<worklist, idx, full_text_content, supporting, htmlFiles,
                   txtFiles, written, browser>>
    /\ UNCHANGED <<config_json, pathe_json, notloop>>

\* lines 396-422: webdriver.Chrome(...)
AcquireSession ==
    /\ pc = "AcquireSession"
    /\ \/ /\ browser' = browser + 1
          /\ pc' = "LoadPage"
          /\ UNCHANGED raised
       \/ \* the driver cannot be started: WebDriverException
          /\ Raise("AcquireSession")
          /\ UNCHANGED browser
    /\ UNCHANGED <<worklist, idx, full_text_content, supporting, dirs, scratch,
                   htmlFiles, txtFiles, written>>
    /\ UNCHANGED <<config_json, pathe_json, notloop>>

\* lines 423-434: browser.get, wait.until, the five scroll pulses
LoadPage ==
    /\ pc = "LoadPage"
    /\ \/ /\ pc' = "Harvest"
          /\ UNCHANGED raised
       \/ \* WebDriverException / TimeoutException / NoSuchElementException
          Raise("LoadPage")
    /\ UNCHANGED <<worklist, idx, full_text_content, supporting, dirs, scratch,
                   htmlFiles, txtFiles, written, browser>>
    /\ UNCHANGED <<config_json, pathe_json, notloop>>

\* line 436: download_supporting_materials leaves any files in the directory
Harvest ==
    /\ pc = "Harvest"
    /\ \/ /\ pathe_json = "ok"
          /\ \E got \in SUBSET FileKinds : scratch' = scratch \cup got
          /\ pc' = "ReleaseSession"
          /\ UNCHANGED raised
       \/ \* lines 206-208: the pattern file is opened, parsed and indexed
          \* outside any try: FileNotFoundError, JSONDecodeError, KeyError
          /\ pathe_json # "ok"
          /\ Raise("Harvest")
          /\ UNCHANGED scratch
    /\ UNCHANGED <<worklist, idx, full_text_content, supporting, dirs, htmlFiles,
                   txtFiles, written, browser>>
    /\ UNCHANGED <<config_json, pathe_json, notloop>>

\* line 437: browser.quit()
ReleaseSession ==
    /\ pc = "ReleaseSession"
    /\ browser' = browser - 1
    /\ pc' = "ExpandArchives"
    /\ UNCHANGED <<worklist, idx, full_text_content, supporting, dirs, scratch,
                   htmlFiles, txtFiles, written, raised>>
    /\ UNCHANGED <<config_json, pathe_json, notloop>>

\* lines 439-446: top-level archives are extracted into the directory itself
ExpandArchives ==
    /\ pc = "ExpandArchives"
    /\ IF "zip" \in scratch
       THEN \E out \in SUBSET FileKinds : scratch' = scratch \cup out
       ELSE UNCHANGED scratch
    /\ pc' = "Filter"
    /\ UNCHANGED <<worklist, idx, full_text_content, supporting, dirs, htmlFiles,
                   txtFiles, written, browser, raised>>
    /\ UNCHANGED <<config_json, pathe_json, notloop>>

\* line 449: remove_else_file
Filter ==
    /\ pc = "Filter"
    /\ scratch' = scratch \cap AllowedKinds
    /\ pc' = "Normalize"
    /\ UNCHANGED <<worklist, idx, full_text_content, supporting, dirs, htmlFiles,
                   txtFiles, written, browser, raised>>
    /\ UNCHANGED <<config_json, pathe_json, notloop>>

\* lines 452-455: convert_files_to_pdf, convert_files_to_html
Normalize ==
    /\ pc = "Normalize"
    /\ \/ \* no office document, or unoconv converted it
          /\ scratch' = IF "doc" \in scratch THEN scratch \cup {"pdf"} ELSE scratch
          /\ supporting' \in IF "pdf" \in scratch' THEN {SuppText, <<>>} ELSE {<<>>}
          /\ pc' = "Cleanup"
          /\ UNCHANGED raised
       \/ \* lines 271-272: CalledProcessError is caught, no PDF appears
          /\ "doc" \in scratch
          /\ supporting' \in IF "pdf" \in scratch THEN {SuppText, <<>>} ELSE {<<>>}
          /\ pc' = "Cleanup"
          /\ UNCHANGED <<scratch, raised>>
       \/ \* lines 261, 269: soffice or python cannot be started; OSError
          /\ "doc" \in scratch
          /\ Raise("Normalize")
          /\ UNCHANGED <<scratch, supporting>>
    /\ UNCHANGED <<worklist, idx, full_text_content, dirs, htmlFiles, txtFiles,
                   written, browser>>
    /\ UNCHANGED <<config_json, pathe_json, notloop>>

\* lines 457-459: delete_non_html_files, shutil.rmtree
Cleanup ==
    /\ pc = "Cleanup"
    /\ \/ /\ dirs' = dirs \ {code}
          /\ scratch' = {}
          /\ pc' = "WriteHtml"
          /\ UNCHANGED raised
       \/ \* shutil.rmtree raises OSError (a file is still held open)
          /\ Raise("Cleanup")
          /\ UNCHANGED <<dirs, scratch>>
    /\ UNCHANGED <<worklist, idx, full_text_content, supporting, htmlFiles,
                   txtFiles, written, browser>>
    /\ UNCHANGED <<config_json, pathe_json, notloop>>

\* lines 461-473
WriteHtml ==
    /\ pc = "WriteHtml"
    /\ \/ /\ htmlFiles' = htmlFiles \cup {code}
          /\ pc' = "Sanitize"
          /\ UNCHANGED raised
       \/ \* line 471: open() raises OSError
          /\ Raise("WriteHtml")
          /\ UNCHANGED htmlFiles
    /\ UNCHANGED <<worklist, idx, full_text_content, supporting, dirs, scratch,
                   txtFiles, written, browser>>
    /\ UNCHANGED <<config_json, pathe_json, notloop>>

\* lines 475-494
Sanitize ==
    /\ pc = "Sanitize"
    /\ \/ /\ txtFiles' = [txtFiles EXCEPT ![code] =
                [exists |-> TRUE,
                 content |-> remove_between_elsevier(
                                 Combined(full_text_content, supporting))]]
          /\ written' = [written EXCEPT ![idx] = @ + 1]
       \/ \* lines 493-494: reading or writing failed, the error is printed
          UNCHANGED <<txtFiles, written>>
    /\ pc' = "DeleteHtml"
    /\ UNCHANGED <<worklist, idx, full_text_content, supporting, dirs, scratch,
                   htmlFiles, browser, raised>>
    /\ UNCHANGED <<config_json, pathe_json, notloop>>

\* lines 496-501
DeleteHtml ==
    /\ pc = "DeleteHtml"
    /\ htmlFiles' = htmlFiles \ {code}
    /\ pc' = "Pace"
    /\ UNCHANGED <<worklist, idx, full_text_content, supporting, dirs, scratch,
                   txtFiles, written, browser, raised>>
    /\ UNCHANGED <<config_json, pathe_json, notloop>>

\* lines 503-504 and the loop head, line 330
Pace ==
    /\ pc = "Pace"
    /\ idx' = idx + 1
    /\ pc' = IF idx + 1 > Len(worklist) THEN "Done" ELSE "RetrieveFullText"
    /\ UNCHANGED <<worklist, full_text_content, supporting, dirs, scratch,
                   htmlFiles, txtFiles, written, browser, raised>>
    /\ UNCHANGED <<config_json, pathe_json, notloop>>

\* the other specifications leave the loop in this state
LoopIdle ==
    /\ worklist = <<>>
    /\ idx = 1
    /\ pc = "Done"
    /\ full_text_content = <<>>
    /\ supporting = <<>>
    /\ dirs = {}
    /\ scratch = {}
    /\ htmlFiles = {}
    /\ txtFiles = [l \in Labels |-> NoFile]
    /\ written = [i \in 1..MaxRows |-> 0]
    /\ browser = 0
    /\ raised = "none"
    /\ config_json = "ok"
    /\ pathe_json = "ok"

SanIdle ==
    san_in = <<>> /\ san_out = <<>> /\ san_pc = "idle" /\ san_twice = <<>>

ProbeIdle == doc_data = [ftrr |-> NoWrapper, originalText |-> Absent,
                         originalTextHtml |-> Absent]
             /\ probe_out = <<>> /\ probe_pc = "idle"

HarvestIdle ==
    /\ h_rules = <<>>
    /\ h_pc = "idle"
    /\ h_rule = 0
    /\ h_elems = 0
    /\ h_elem = 0
    /\ h_visited = {}
    /\ h_found = [r \in 1..MaxRules |-> -1]
    /\ h_seen = {}
    /\ h_failed = {}
    /\ h_files = {}

FsIdle ==
    /\ fs_files = <<>>
    /\ fs_dirs = {<<>>}
    /\ f_pc = "idle"
    /\ f_zips = <<>>
    /\ f_stack = <<>>
    /\ f_expanded = {}
    /\ f_skipped = {}
    /\ f_after = {}
    /\ f_todo = {}
    /\ f_attempted = {}
    /\ f_html = <<>>
    /\ f_launched = 0

NamingIdle == nm_codes = <<>> /\ nm_paths = <<>> /\ nm_pc = "idle"

\* the script is started: nothing has been read yet
Init ==
    /\ worklist \in Worklists(MaxRows)
    /\ idx = 1
    /\ pc = "Startup"
    /\ config_json \in FileStates
    /\ pathe_json \in FileStates
    /\ full_text_content = <<>>
    /\ supporting = <<>>
    /\ dirs \in SUBSET Labels      \* directories an earlier run left behind
    /\ scratch = {}
    /\ htmlFiles = {}
    /\ txtFiles = [l \in Labels |-> NoFile]
    /\ written = [i \in 1..MaxRows |-> 0]
    /\ browser = 0
    /\ raised = "none"
    /\ SanIdle
    /\ ProbeIdle
    /\ HarvestIdle
    /\ FsIdle
    /\ NamingIdle

Next ==
    \/ Startup
    \/ RetrieveFullText \/ PrepareScratch \/ AcquireSession \/ LoadPage
    \/ Harvest \/ ReleaseSession \/ ExpandArchives \/ Filter \/ Normalize
    \/ Cleanup \/ WriteHtml \/ Sanitize \/ DeleteHtml \/ Pace

Spec == Init /\ [][Next]_vars

-----------------------------------------------------------------------------
(* Properties of the loop *)

RunEnded == pc \in {"Done", "Crashed"}

\* C1: when the run ends, every row of the worklist has had its record
\* written exactly once (also the rows whose retrieval and harvest failed).
C1_OneRecordPerRow ==
    RunEnded => \A i \in 1..Len(worklist) : written[i] = 1

\* C2: an error raised by a stage other than RetrieveFullText does not halt
\* the batch: when the run has ended the loop has gone past the last row.
C2_ErrorDoesNotHaltBatch ==
    (RunEnded /\ raised \notin {"none", "RetrieveFullText"})
        => idx > Len(worklist)

\* processing of row i has ended: the loop went on, or a stage after the
\* creation of the scratch directory failed
Ended(i) ==
    \/ i < idx
    \/ i = idx /\ pc = "Crashed"
       /\ raised \notin {"RetrieveFullText", "PrepareScratch"}

\* C3: when the next record starts and when the run has ended, the scratch
\* directory of every record whose processing has ended does not exist.
C3_ScratchAbsentAfterRecord ==
    pc \in {"RetrieveFullText", "Done", "Crashed"} =>
        \A i \in 1..Len(worklist) : Ended(i) => worklist[i].code \notin dirs

\* C4: no error escapes the full-text retrieval block.
C4_RetrievalNeverRaises == raised # "RetrieveFullText"

\* C7: at most one rendering session is open, and none is open when the
\* next record starts or when the run has ended.
C7_SessionReleased ==
    /\ browser <= 1
    /\ pc \in {"RetrieveFullText", "Done", "Crashed"} => browser = 0

\* the pass of the loop for row i has begun
Started(i) ==
    pc \notin {"Startup", "Exited"} /\ i <= idx /\ i <= Len(worklist)

\* C11: a configuration problem (no readable config.json or no key in it, no
\* readable pattern file or no dynamic_patterns in it) stops the run before
\* the first row is taken up, and once a row has been taken up nothing ends
\* the run before the last row.
C11_ConfigFatalOnlyAtStartup ==
    /\ (config_json # "ok" \/ pathe_json # "ok") => ~Started(1)
    /\ pc # "Crashed"

\* time.sleep(1) of line 504 has run in the pass for row i: the loop index
\* moves on in the step that follows it and nowhere else
Paced(i) == i < idx

\* C12: when the run has ended, the pacing delay has been executed after
\* every row whose pass had begun, whatever the outcome of the pass.
C12_DelayAfterEveryItem ==
    RunEnded => \A i \in 1..Len(worklist) : Started(i) => Paced(i)

\* C16: in the consolidation of a row (lines 457-501) the scratch directory
\* is removed only after the cleaned text of the row has been written: as
\* long as the text is not written the directory is still there.
C16_PersistBeforeRemoval ==
    pc \in {"Cleanup", "WriteHtml", "Sanitize"} =>
        (written[idx] = 0 => code \in dirs)

-----------------------------------------------------------------------------
(* remove_between_elsevier on bounded inputs *)

\* building blocks of the inputs: the marker in two spellings, a prefix of
\* the marker, a letter and two kinds of whitespace
Pieces ==
    {Marker,
     <<"E", "L", "S", "e", "v", "i", "e", "R">>,
     <<"e", "l", "s">>,
     <<"A">>,
     <<" ">>,
     <<"\n">>}

RECURSIVE Concats(_)
Concats(n) ==
    IF n = 0 THEN {<<>>}
    ELSE LET shorter == Concats(n - 1)
         IN  shorter \cup {x \o y : x \in Pieces, y \in shorter}

\* "A MARKER B MARKER C"
Example ==
    <<"A", " ">> \o Marker \o <<" ", "B", " ">> \o Marker \o <<" ", "C">>

\* one marker between runs of mixed whitespace
OneMarker ==
    <<"\t", "A", " ", "\n", "\t", " ">> \o Marker \o <<"\n", "\n", "B", " ">>

SanInputs == Concats(MaxPieces) \cup {Example, OneMarker}

SanInit ==
    /\ san_in \in SanInputs
    /\ san_out = <<>>
    /\ san_twice = <<>>
    /\ san_pc = "call"
    /\ LoopIdle
    /\ ProbeIdle
    /\ HarvestIdle
    /\ FsIdle
    /\ NamingIdle

\* line 485: cleaned_text = remove_between_elsevier(html_content)
SanApply ==
    /\ san_pc = "call"
    /\ san_out' = remove_between_elsevier(san_in)
    /\ san_pc' = "done"
    /\ UNCHANGED <<san_in, san_twice, notsan>>

\* the function applied to the text it returned
SanApplyAgain ==
    /\ san_pc = "done"
    /\ san_twice' = remove_between_elsevier(san_out)
    /\ san_pc' = "twice"
    /\ UNCHANGED <<san_in, san_out, notsan>>

SanNext == SanApply \/ SanApplyAgain

SpecSanitize == SanInit /\ [][SanNext]_vars

\* positions where the marker occurs, ignoring case
Occ(s) == {i \in 1..Len(s) : MatchAt(s, i)}

\* s without the span from the first occurrence to the end of the next one
CutFirstSpan(s) ==
    IF Cardinality(Occ(s)) < 2 THEN s
    ELSE LET first  == Min(Occ(s))
             second == Min(Occ(s) \ {first})
         IN  [k \in 1..(Len(s) - (second + Len(Marker) - first)) |->
                 IF k < first THEN s[k]
                 ELSE s[k + (second + Len(Marker) - first)]]

\* positions of t that survive collapsing and trimming: the other characters,
\* and the first character of every whitespace run that has another
\* character on both sides
KeptPositions(t) ==
    {i \in 1..Len(t) :
        \/ t[i] \notin Whitespace
        \/ /\ i > 1
           /\ t[i - 1] \notin Whitespace
           /\ \E j \in (i + 1)..Len(t) : t[j] \notin Whitespace}

\* t with every whitespace run collapsed to one space, and trimmed
Collapsed(t) ==
    LET K == KeptPositions(t)
        nth(k) == CHOOSE i \in K : Cardinality({j \in K : j < i}) = k - 1
    IN  [k \in 1..Cardinality(K) |->
            IF t[nth(k)] \in Whitespace THEN " " ELSE t[nth(k)]]

\* C6: the result is the input without the span from the first occurrence
\* of the marker to the end of the next occurrence (nothing is cut when the
\* marker occurs less than twice, later occurrences stay), with whitespace
\* runs collapsed and the ends trimmed; the example yields "A C".
C6_SingleSpanRemoved ==
    san_pc = "done" =>
        /\ san_out = Collapsed(CutFirstSpan(san_in))
        /\ san_in = Example => san_out = <<"A", " ", "C">>

\* an input with three occurrences: one span goes, the third marker stays
C6_Witness ==
    /\ san_pc = "done"
    /\ Cardinality(Occ(san_in)) = 3
    /\ Cardinality(Occ(san_out)) = 1

\* C15: on an input with at most one occurrence of the marker (any case),
\* applying the function to its own result changes nothing.
C15_IdempotentUpToOneMarker ==
    (san_pc = "twice" /\ Cardinality(Occ(san_in)) <= 1) => san_twice = san_out

\* one marker, whitespace collapsed and trimmed by the first application
C15_Witness ==
    /\ san_pc = "twice"
    /\ san_in = OneMarker
    /\ san_out = <<"A", " ">> \o Marker \o <<" ", "B">>
    /\ san_twice = san_out

-----------------------------------------------------------------------------
(* The field probing on every response shape *)

ProbeInit ==
    /\ doc_data \in DocShapes
    /\ probe_out = <<>>
    /\ probe_pc = "call"
    /\ LoopIdle
    /\ SanIdle
    /\ HarvestIdle
    /\ FsIdle
    /\ NamingIdle

\* lines 355-381 after doc.read(client) returned True
ProbeApply ==
    /\ probe_pc = "call"
    /\ probe_out' = FullTextContent(doc_data)
    /\ probe_pc' = "done"
    /\ UNCHANGED <<doc_data, notprobe>>

ProbeNext == ProbeApply

SpecProbe == ProbeInit /\ [][ProbeNext]_vars

\* the four fields in the order of the claim
FieldsInOrder(data) ==
    <<data.ftrr.originalText, data.ftrr.originalTextHtml,
      data.originalText, data.originalTextHtml>>

\* the first present value of a sequence of fields, Absent when there is none
FirstPresent(fields) ==
    IF \A k \in 1..Len(fields) : ~Present(fields[k]) THEN Absent
    ELSE fields[Min({k \in 1..Len(fields) : Present(fields[k])})]

Consulted(data) ==
    IF data.ftrr.present
    THEN <<data.ftrr.originalText, data.ftrr.originalTextHtml>>
    ELSE <<data.originalText, data.originalTextHtml>>

OnlyTopLevelHtml(data) ==
    /\ ~data.ftrr.present
    /\ ~Present(data.originalText)
    /\ Truthy(data.originalTextHtml)

-----------------------------------------------------------------------------
(* download_supporting_materials, lines 204-257 *)

\* shape of a locator: it ends in 'button', it ends in 'a', it ends in
\* something else, or the JSON value is not a string at all
LocatorKinds == {"button", "a", "other", "nonstring"}

RECURSIVE RuleLists(_)
RuleLists(n) ==
    IF n = 0 THEN {<<>>}
    ELSE RuleLists(n - 1) \cup
         {Append(w, k) : w \in {x \in RuleLists(n - 1) : Len(x) = n - 1},
                         k \in LocatorKinds}

HarvestInit ==
    /\ h_rules \in RuleLists(MaxRules)
    /\ h_pc = "load"
    /\ h_rule = 0
    /\ h_elems = 0
    /\ h_elem = 0
    /\ h_visited = {}
    /\ h_found = [r \in 1..MaxRules |-> -1]
    /\ h_seen = {}
    /\ h_failed = {}
    /\ h_files = {}
    /\ LoopIdle
    /\ SanIdle
    /\ ProbeIdle
    /\ FsIdle
    /\ NamingIdle

\* lines 206-208: the pattern file is read outside any try
LoadPatterns ==
    /\ h_pc = "load"
    /\ \/ /\ h_pc' = "rule"
          /\ h_rule' = 1
       \/ \* FileNotFoundError, JSONDecodeError or KeyError leaves the function
          /\ h_pc' = "raised"
          /\ UNCHANGED h_rule
    /\ UNCHANGED <<h_rules, h_elems, h_elem, h_visited, h_found, h_seen,
                   h_failed, h_files, notharvest>>

\* the outer loop goes on to the rule after r, or the function returns
ToRule(r) ==
    /\ h_rule' = r
    /\ h_pc' = IF r > Len(h_rules) THEN "done" ELSE "rule"
    /\ h_elems' = 0
    /\ h_elem' = 0

\* lines 211-224 and 256-257: one pass of the outer loop up to the lookup
TakeRule ==
    /\ h_pc = "rule"
    /\ h_rule <= Len(h_rules)
    /\ h_visited' = h_visited \cup {h_rule}
    /\ \/ \* lines 218-220: unknown shape, continue
          /\ h_rules[h_rule] = "other"
          /\ h_failed' = h_failed \cup {<<h_rule, 0>>}
          /\ ToRule(h_rule + 1)
          /\ UNCHANGED h_found
       \/ \* line 214: endswith on a non-string raises, caught at line 256
          /\ h_rules[h_rule] = "nonstring"
          /\ h_failed' = h_failed \cup {<<h_rule, 0>>}
          /\ ToRule(h_rule + 1)
          /\ UNCHANGED h_found
       \/ \* line 223: find_elements raises, caught at line 256
          /\ h_rules[h_rule] \in {"button", "a"}
          /\ h_failed' = h_failed \cup {<<h_rule, 0>>}
          /\ ToRule(h_rule + 1)
          /\ UNCHANGED h_found
       \/ \* line 223: find_elements returns n elements
          /\ h_rules[h_rule] \in {"button", "a"}
          /\ \E n \in 0..MaxElems :
                /\ h_found' = [h_found EXCEPT ![h_rule] = n]
                /\ IF n = 0
                   THEN ToRule(h_rule + 1)
                   ELSE /\ h_pc' = "elem"
                        /\ h_elems' = n
                        /\ h_elem' = 1
                        /\ UNCHANGED h_rule
          /\ UNCHANGED h_failed
    /\ UNCHANGED <<h_rules, h_seen, h_files, notharvest>>

\* a plausible slip: without the inner try the error reaches the handler of
\* the rule, which drops the remaining elements
AfterElementErrorUncaught(e, n) == n + 1

\* lines 254-255: the error of one element is printed and the inner loop
\* goes on with the next element
AfterElementError(e, n) == e + 1

\* the inner loop goes on at element e, or the outer loop goes on
ToElement(e) ==
    IF e > h_elems
    THEN ToRule(h_rule + 1)
    ELSE /\ h_elem' = e
         /\ UNCHANGED <<h_pc, h_rule, h_elems>>

\* lines 227-255: one pass of the inner loop
TakeElement ==
    /\ h_pc = "elem"
    /\ h_elem <= h_elems
    /\ h_seen' = h_seen \cup {<<h_rule, h_elem>>}
    /\ \/ \* lines 229-232: the click went through; lines 250-251: no href
          /\ ToElement(h_elem + 1)
          /\ UNCHANGED <<h_failed, h_files>>
       \/ \* execute_script, get_attribute, requests.get or the file write
          \* raises: caught at line 254
          /\ h_failed' = h_failed \cup {<<h_rule, h_elem>>}
          /\ ToElement(AfterElementError(h_elem, h_elems))
          /\ UNCHANGED h_files
       \/ \* lines 248-249: the status is not 200
          /\ h_rules[h_rule] = "a"
          /\ h_failed' = h_failed \cup {<<h_rule, h_elem>>}
          /\ ToElement(h_elem + 1)
          /\ UNCHANGED h_files
       \/ \* lines 240-247: the body is written under the base name of the link
          /\ h_rules[h_rule] = "a"
          /\ h_files' = h_files \cup {<<h_rule, h_elem>>}
          /\ ToElement(h_elem + 1)
          /\ UNCHANGED h_failed
    /\ UNCHANGED <<h_rules, h_visited, h_found, notharvest>>

HarvestNext == LoadPatterns \/ TakeRule \/ TakeElement

SpecHarvest == HarvestInit /\ [][HarvestNext]_vars

\* C9: when the harvest returns, every rule has been taken up and every
\* element a lookup returned has been taken up, whatever failed on the way;
\* and no failure of a rule or of an element leaves the function: it is only
\* left by an exception before the first rule.
C9_FailuresAreSkipped ==
    /\ h_pc = "done" =>
          /\ h_visited = 1..Len(h_rules)
          /\ \A r \in 1..Len(h_rules) :
                \A e \in 1..MaxElems : e <= h_found[r] => <<r, e>> \in h_seen
    /\ h_pc = "raised" => (h_visited = {} /\ h_failed = {})

\* the first element of the first rule failed, the second was still handled,
\* and the second rule, after a failure of its own element, fetched a file
C9_Witness ==
    /\ h_pc = "done"
    /\ Len(h_rules) = 2
    /\ <<1, 1>> \in h_failed
    /\ <<1, 2>> \in h_seen
    /\ <<2, 1>> \in h_failed
    /\ <<2, 2>> \in h_files

-----------------------------------------------------------------------------
(* One scratch directory: unzip_file, remove_else_file, convert_files_to_pdf *)
(* and convert_files_to_html, lines 163-202, 259-316 and 439-455.           *)
(* A file name is its stem and its extension; a path is the sequence of      *)
(* names below full_path.                                                    *)

N(stem, ext) == [stem |-> stem, ext |-> ext]

\* str.lower() on an extension
ExtLower(e) == IF e = "ZIP" THEN "zip" ELSE e

\* lines 179 and 440: file.lower().endswith('.zip')
IsZipName(n) == ExtLower(n.ext) = "zip"

\* line 181: os.path.splitext(nested_zip_path)[0]
StemPath(path) ==
    SubSeq(path, 1, Len(path) - 1) \o <<N(path[Len(path)].stem, "")>>

\* content of a file: plain bytes, an archive with its members, or bytes that
\* pass zipfile.is_zipfile but cannot be read as an archive
Plain   == [kind |-> "data", entries |-> {}]
Corrupt == [kind |-> "corrupt", entries |-> {}]
Zip(E)  == [kind |-> "zip", entries |-> E]
Member(path, data) == [path |-> path, data |-> data]

\* line 167
is_zipfile(data) == data.kind \in {"zip", "corrupt"}

\* what an archive holds next to its PDF and the archive nested in it
SiblingKinds ==
    {"none", "corrupt", "notzip", "clash", "folder", "folderzip", "exe"}

SiblingMembers(sib) ==
    CASE sib = "corrupt"   -> {Member(<<N("k", "zip")>>, Corrupt)}
      [] sib = "notzip"    -> {Member(<<N("g", "zip")>>, Plain)}
      [] sib = "clash"     -> {Member(<<N("n", "")>>, Plain)}
      [] sib = "folder"    -> {Member(<<N("f", ""), N("q", "pdf")>>, Plain),
                               Member(<<N("f", ""), N("y", "exe")>>, Plain)}
      [] sib = "folderzip" -> {Member(<<N("f", ""), N("m", "zip")>>,
                                      Zip({Member(<<N("r", "pdf")>>, Plain)}))}
      [] sib = "exe"       -> {Member(<<N("x", "exe")>>, Plain)}
      [] OTHER             -> {}

\* an archive with depth archives nested inside one another: p.pdf, the
\* siblings and, above the innermost level, n.zip
RECURSIVE Arch(_, _)
Arch(depth, sib) ==
    Zip({Member(<<N("p", "pdf")>>, Plain)}
        \cup SiblingMembers(sib)
        \cup (IF depth > 1
              THEN {Member(<<N("n", "zip")>>, Arch(depth - 1, sib))}
              ELSE {}))

\* files a harvest can leave at the top of the directory
LooseNames == {N("p", "pdf"), N("d", "docx"), N("x", "exe")}

\* the same without any archive: two office documents, one of them with the
\* stem of a PDF
TopNames == LooseNames \cup {N("d", "pdf"), N("e", "doc")}

Perms(S) ==
    {q \in [1..Cardinality(S) -> S] :
        \A i, j \in 1..Cardinality(S) : i # j => q[i] # q[j]}

FsInit ==
    /\ \E depth \in 0..MaxNest, sib \in SiblingKinds, second \in BOOLEAN :
       \* loose files next to the shallow archives only: they take no part
       \* in the expansion
       \E loose \in IF depth = 0 THEN SUBSET TopNames
                     ELSE IF depth = 1 THEN SUBSET LooseNames
                     ELSE {{}} :
          fs_files =
              [q \in {<<n>> : n \in loose} |-> Plain]
              @@ (IF depth > 0 THEN <<N("a", "zip")>> :> Arch(depth, sib)
                  ELSE <<>>)
              @@ (IF second THEN <<N("b", "ZIP")>> :> Arch(1, "none")
                  ELSE <<>>)
    /\ fs_dirs = {<<>>}
    /\ f_pc = "list"
    /\ f_zips = <<>>
    /\ f_stack = <<>>
    /\ f_expanded = {}
    /\ f_skipped = {}
    /\ f_after = {}
    /\ f_todo = {}
    /\ f_attempted = {}
    /\ f_html = <<>>
    /\ f_launched = 0
    /\ LoopIdle
    /\ SanIdle
    /\ ProbeIdle
    /\ HarvestIdle
    /\ NamingIdle

\* os.listdir(d): the names of the files and of the directories in d
FilesIn(d) ==
    {q[Len(q)] : q \in {x \in DOMAIN fs_files :
                          Len(x) = Len(d) + 1 /\ SubSeq(x, 1, Len(d)) = d}}

SubDirs(d) ==
    {x \in fs_dirs : Len(x) = Len(d) + 1 /\ SubSeq(x, 1, Len(d)) = d}

Frame(zip, to) ==
    [zip |-> zip, to |-> to, phase |-> "enter", dirsTodo |-> <<>>,
     cur |-> <<>>, filesTodo |-> {}]

\* line 440
ListZips ==
    /\ f_pc = "list"
    /\ f_zips' \in Perms({n \in FilesIn(<<>>) : IsZipName(n)})
    /\ f_pc' = "top"
    /\ UNCHANGED <<fs_files, fs_dirs, f_stack, f_expanded, f_skipped, f_after,
                   f_todo, f_attempted, f_html, f_launched, notfs>>

\* lines 441-446: the next top-level archive goes to unzip_file, extracted
\* into full_path itself; after the last one the stage is over
CallTop ==
    /\ f_pc = "top"
    /\ f_stack = <<>>
    /\ IF f_zips = <<>>
       THEN /\ f_pc' = "filter"
            /\ f_after' = DOMAIN fs_files
            /\ UNCHANGED <<f_zips, f_stack>>
       ELSE /\ f_stack' = <<Frame(<<Head(f_zips)>>, <<>>)>>
            /\ f_zips' = Tail(f_zips)
            /\ UNCHANGED <<f_pc, f_after>>
    /\ UNCHANGED <<fs_files, fs_dirs, f_expanded, f_skipped, f_todo,
                   f_attempted, f_html, f_launched, notfs>>

\* ZipFile.extractall: every member is written below the destination, with
\* the directories on its way; a member replaces a file of the same path
ExtractAll(files, to, entries) ==
    [q \in {to \o e.path : e \in entries} |->
        (CHOOSE e \in entries : to \o e.path = q).data] @@ files

ExtractDirs(to, entries) ==
    UNION {{to \o SubSeq(e.path, 1, k) : k \in 1..(Len(e.path) - 1)} :
              e \in entries}

\* lines 167-174 and 185-186: the head of a call of unzip_file
EnterUnzip ==
    /\ f_pc = "top"
    /\ f_stack # <<>>
    /\ Head(f_stack).phase = "enter"
    /\ LET fr   == Head(f_stack)
           data == fs_files[fr.zip]
       IN  IF ~is_zipfile(data) \/ data.kind = "corrupt"
           THEN \* not an archive: warning and return; or BadZipFile, caught
                /\ f_skipped' = f_skipped \cup {fr.zip}
                /\ f_stack' = Tail(f_stack)
                /\ UNCHANGED <<fs_files, fs_dirs, f_expanded>>
           ELSE /\ fs_files' = ExtractAll(fs_files, fr.to, data.entries)
                /\ fs_dirs' = fs_dirs \cup ExtractDirs(fr.to, data.entries)
                /\ f_expanded' = f_expanded \cup {<<fr.zip, fr.to>>}
                /\ f_stack' = <<[fr EXCEPT !.phase = "walk",
                                           !.dirsTodo = <<fr.to>>]>>
                               \o Tail(f_stack)
                /\ UNCHANGED f_skipped
    /\ UNCHANGED <<f_pc, f_zips, f_after, f_todo, f_attempted, f_html,
                   f_launched, notfs>>

\* line 177: os.walk lists the next directory; its sub-directories, as they
\* are now, are walked before the directories still pending.  The body of
\* the loop at line 178 acts on the .zip names only.
ScanDir ==
    /\ f_pc = "top"
    /\ f_stack # <<>>
    /\ Head(f_stack).phase = "walk"
    /\ Head(f_stack).filesTodo = {}
    /\ Head(f_stack).dirsTodo # <<>>
    /\ LET fr == Head(f_stack)
           d  == Head(fr.dirsTodo)
       IN  \E order \in Perms(SubDirs(d)) :
              f_stack' = <<[fr EXCEPT
                              !.cur = d,
                              !.filesTodo = {n \in FilesIn(d) : IsZipName(n)},
                              !.dirsTodo = order \o Tail(fr.dirsTodo)]>>
                         \o Tail(f_stack)
    /\ UNCHANGED <<fs_files, fs_dirs, f_pc, f_zips, f_expanded, f_skipped,
                   f_after, f_todo, f_attempted, f_html, f_launched, notfs>>

\* a plausible slip: the handler sits inside a loop that takes the same
\* file up again
AfterMakedirsErrorRetry(stack, file) == stack

\* lines 187-188: an error inside the walk is caught by the handler that
\* encloses the whole loop; the call prints it and returns
AfterMakedirsError(stack, file) == Tail(stack)

\* lines 178-184: one .zip file of the directory being walked
VisitZip ==
    /\ f_pc = "top"
    /\ f_stack # <<>>
    /\ Head(f_stack).phase = "walk"
    /\ \E file \in Head(f_stack).filesTodo :
          LET fr == Head(f_stack)
              nested_zip_path   == fr.cur \o <<file>>
              nested_extract_to == StemPath(nested_zip_path)
          IN  IF nested_extract_to \in DOMAIN fs_files
              THEN \* os.makedirs on the path of a file: FileExistsError
                   /\ f_stack' = AfterMakedirsError(f_stack, file)
                   /\ f_skipped' = f_skipped \cup {fr.zip}
                   /\ UNCHANGED fs_dirs
              ELSE /\ fs_dirs' = fs_dirs \cup {nested_extract_to}
                   /\ f_stack' =
                         <<Frame(nested_zip_path, nested_extract_to),
                           [fr EXCEPT !.filesTodo = @ \ {file}]>>
                         \o Tail(f_stack)
                   /\ UNCHANGED f_skipped
    /\ UNCHANGED <<fs_files, f_pc, f_zips, f_expanded, f_after, f_todo,
                   f_attempted, f_html, f_launched, notfs>>

\* the walk is exhausted: the call returns
ReturnUnzip ==
    /\ f_pc = "top"
    /\ f_stack # <<>>
    /\ Head(f_stack).phase = "walk"
    /\ Head(f_stack).filesTodo = {}
    /\ Head(f_stack).dirsTodo = <<>>
    /\ f_stack' = Tail(f_stack)
    /\ UNCHANGED <<fs_files, fs_dirs, f_pc, f_zips, f_expanded, f_skipped,
                   f_after, f_todo, f_attempted, f_html, f_launched, notfs>>

\* line 191
AllowedExt == {"pdf", "docx", "doc"}

Ext(path) == ExtLower(path[Len(path)].ext)

\* lines 302-304: the names convert_files_to_pdf takes up
DocNames(files) ==
    {q[1] : q \in {x \in DOMAIN files : Len(x) = 1 /\ Ext(x) \in {"doc", "docx"}}}

\* lines 311-313: the names convert_files_to_html takes up
PdfNames(files) ==
    {q[1] : q \in {x \in DOMAIN files : Len(x) = 1 /\ Ext(x) = "pdf"}}

\* convert_files_to_html starts on the directory as it is now; without a
\* PDF it returns at once
ToHtmlPhase(files) ==
    /\ f_todo' = PdfNames(files)
    /\ f_pc' = IF PdfNames(files) = {} THEN "done" ELSE "tohtml"

\* convert_files_to_pdf starts on the directory as it is now
ToPdfPhase(files) ==
    IF DocNames(files) = {}
    THEN ToHtmlPhase(files)
    ELSE /\ f_todo' = DocNames(files)
         /\ f_pc' = "topdf"

\* lines 193-197: the files directly in full_path with another extension
Removable(files) ==
    {x \in DOMAIN files : Len(x) = 1 /\ Ext(x) \notin AllowedExt}

\* lines 190-202: they are removed
remove_else_file(files) ==
    [q \in DOMAIN files \ Removable(files) |-> files[q]]

\* line 449, then the listing at line 302
FilterFiles ==
    /\ f_pc = "filter"
    /\ fs_files' = remove_else_file(fs_files)
    /\ ToPdfPhase(fs_files')
    /\ UNCHANGED <<fs_dirs, f_zips, f_stack, f_expanded, f_skipped, f_after,
                   f_attempted, f_html, f_launched, notfs>>

\* lines 263-272 for one name of the listing at line 302
ConvertOne ==
    /\ f_pc = "topdf"
    /\ \E n \in f_todo :
          /\ f_launched' = f_launched + 1
          /\ \/ \* unoconv wrote the PDF next to the document
                /\ fs_files' = (<<N(n.stem, "pdf")>> :> Plain) @@ fs_files
                /\ f_attempted' = f_attempted \cup {<<n>>}
                /\ IF f_todo = {n}
                   THEN ToHtmlPhase(fs_files')
                   ELSE f_todo' = f_todo \ {n} /\ UNCHANGED f_pc
             \/ \* lines 271-272: CalledProcessError, printed
                /\ f_attempted' = f_attempted \cup {<<n>>}
                /\ IF f_todo = {n}
                   THEN ToHtmlPhase(fs_files)
                   ELSE f_todo' = f_todo \ {n} /\ UNCHANGED f_pc
                /\ UNCHANGED fs_files
             \/ \* lines 261, 269: the executable cannot be started; the
                \* OSError is caught nowhere
                /\ f_pc' = "crashed"
                /\ UNCHANGED <<fs_files, f_attempted, f_todo>>
    /\ UNCHANGED <<fs_dirs, f_zips, f_stack, f_expanded, f_skipped, f_after,
                   f_html, notfs>>

\* lines 274-298 and 313-315 for one name of the listing at line 311
ExtractOne ==
    /\ f_pc = "tohtml"
    /\ \E n \in f_todo :
          /\ \E text \in {"text", ""} :   \* "": lines 296-298, the error is printed
                f_html' = Append(f_html, [path |-> <<n>>, text |-> text])
          /\ f_attempted' = f_attempted \cup {<<n>>}
          /\ f_todo' = f_todo \ {n}
          /\ f_pc' = IF f_todo = {n} THEN "done" ELSE "tohtml"
    /\ UNCHANGED <<fs_files, fs_dirs, f_zips, f_stack, f_expanded, f_skipped,
                   f_after, f_launched, notfs>>

FsNext ==
    \/ ListZips \/ CallTop \/ EnterUnzip \/ ScanDir \/ VisitZip \/ ReturnUnzip
    \/ FilterFiles \/ ConvertOne \/ ExtractOne

SpecFs == FsInit /\ [][FsNext]_vars

\* C10: when ExpandArchives is over, every archive in the tree has been
\* extracted, its members lying below the directory it was extracted
\* into, and every file named .zip that is no readable archive has been
\* reported and skipped.
C10_EveryArchiveExpanded ==
    f_pc = "filter" =>
        \A q \in DOMAIN fs_files :
            IsZipName(q[Len(q)]) =>
                IF fs_files[q].kind = "zip"
                THEN \E to \in fs_dirs :
                        /\ <<q, to>> \in f_expanded
                        /\ \A e \in fs_files[q].entries :
                              /\ to \o e.path \in DOMAIN fs_files
                              /\ fs_files[to \o e.path] = e.data
                ELSE q \in f_skipped

\* C8: when Normalize is over, every file of the tree ExpandArchives left,
\* at any depth, has been deleted if its extension is not .pdf, .doc or
\* .docx, and has been taken up by the conversion or the text extraction
\* otherwise.
C8_WholeTreeCovered ==
    f_pc = "done" =>
        \A q \in f_after :
            IF Ext(q) \notin AllowedExt
            THEN q \notin DOMAIN fs_files
            ELSE q \in f_attempted

\* the documents Filter left at the top of the directory
KeptDocs == {q \in f_after : Len(q) = 1 /\ Ext(q) \in AllowedExt}

OfficeDocs == {q \in KeptDocs : Ext(q) \in {"doc", "docx"}}

\* C14: after Filter no file with another extension is left at the top of
\* the directory, and after Normalize html_contents has one entry for each
\* office document and each PDF that Filter left, no two of them from the
\* same document (one .docx, one .pdf and one .exe: two entries).
C14_OneContributionPerDocument ==
    /\ f_pc \in {"topdf", "tohtml", "done"} => Removable(fs_files) = {}
    /\ f_pc = "done" =>
          /\ Len(f_html) = Cardinality(KeptDocs)
          /\ \A q \in KeptDocs :
                \E i \in 1..Len(f_html) :
                   f_html[i].path = <<N(q[1].stem, "pdf")>>
          /\ \A i, j \in 1..Len(f_html) :
                i # j => f_html[i].path # f_html[j].path

\* C17: the converter is launched at most once however many office
\* documents are converted, and not at all when there is none.
C17_ConverterLaunchedOnce ==
    /\ f_launched <= 1
    /\ OfficeDocs = {} => f_launched = 0

\* C18: a failure on one office document does not end the stage: every
\* office document is handed to the converter and the text extraction
\* follows.
C18_ConversionFailurePerFile ==
    /\ f_pc # "crashed"
    /\ f_pc \in {"tohtml", "done"} => OfficeDocs \subseteq f_attempted

-----------------------------------------------------------------------------
(* ExpandArchives alone, lines 439-446, run to its end *)

\* the directory after the harvest: an archive with up to MaxDepth archives
\* nested in one another, and possibly a second archive next to it
ExpandInit ==
    /\ \E depth \in 0..MaxDepth, sib \in SiblingKinds, second \in BOOLEAN :
          fs_files =
              (IF depth > 0 THEN <<N("a", "zip")>> :> Arch(depth, sib)
               ELSE <<>>)
              @@ (IF second THEN <<N("b", "ZIP")>> :> Arch(1, "none")
                  ELSE <<>>)
    /\ fs_dirs = {<<>>}
    /\ f_pc = "list"
    /\ f_zips = <<>>
    /\ f_stack = <<>>
    /\ f_expanded = {}
    /\ f_skipped = {}
    /\ f_after = {}
    /\ f_todo = {}
    /\ f_attempted = {}
    /\ f_html = <<>>
    /\ f_launched = 0
    /\ LoopIdle
    /\ SanIdle
    /\ ProbeIdle
    /\ HarvestIdle
    /\ NamingIdle

ExpandNext ==
    \/ ListZips \/ CallTop \/ EnterUnzip \/ ScanDir \/ VisitZip \/ ReturnUnzip

\* the interpreter runs one thread and never waits: a step that can be
\* taken is taken
SpecExpand == ExpandInit /\ [][ExpandNext]_vars /\ WF_vars(ExpandNext)

\* C19: the ExpandArchives stage comes to its end, whatever archives are
\* nested in the directory: the top-level archive that is extracted into
\* the directory it lies in, archives next to one another, archives inside
\* archives.
C19_ExpansionTerminates == <>(f_pc = "filter")

\* two archives at the top, one with an archive inside: each was extracted
\* into the directory itself, and the walk of the directory extracted the
\* first again into the directory of its stem
C19_Witness ==
    /\ f_pc = "filter"
    /\ <<<<N("a", "zip")>>, <<>>>> \in f_expanded
    /\ <<<<N("b", "ZIP")>>, <<>>>> \in f_expanded
    /\ <<<<N("a", "zip")>>, <<N("a", "")>>>> \in f_expanded
    /\ <<<<N("n", "zip")>>, <<N("n", "")>>>> \in f_expanded
    /\ <<<<N("a", ""), N("n", "zip")>>, <<N("a", ""), N("n", "")>>>> \in f_expanded

-----------------------------------------------------------------------------
(* The name of the output file, lines 470 and 477-489, for two labels *)

MaxParts == 2       \* parts concatenated into a record label

\* line 154
download_dir ==
    <<".", "/", "l", "a", "n", "g", "g", "r", "a", "g", "h", "/", "i", "n",
      "p", "u", "t">>

DotHtml == <<".", "h", "t", "m", "l">>
DotTxt  == <<".", "t", "x", "t">>

\* parts of a label: two letters and the two extensions
LabelParts == {<<"x">>, <<"y">>, DotHtml, DotTxt}

RECURSIVE LabelsOf(_)
LabelsOf(n) ==
    IF n = 0 THEN {<<>>}
    ELSE LET shorter == LabelsOf(n - 1)
         IN  shorter \cup {x \o y : x \in LabelParts, y \in shorter}

\* str.replace(old, new): every occurrence, left to right, not overlapping
RECURSIVE Replace(_, _, _)
Replace(s, old, new) ==
    IF Len(s) < Len(old) THEN s
    ELSE IF SubSeq(s, 1, Len(old)) = old
         THEN new \o Replace(SubSeq(s, Len(old) + 1, Len(s)), old, new)
         ELSE <<s[1]>> \o Replace(Tail(s), old, new)

\* os.path.basename: what follows the last separator
basename(path) ==
    LET seps == {i \in 1..Len(path) : path[i] = "/"}
    IN  IF seps = {} THEN path
        ELSE SubSeq(path, (CHOOSE i \in seps : \A j \in seps : j <= i) + 1,
                    Len(path))

\* line 470: f"{download_dir}/{code}.html"
filename(c) == download_dir \o <<"/">> \o c \o DotHtml

\* lines 478 and 488
txt_filename(c) == Replace(basename(filename(c)), DotHtml, DotTxt)

\* line 489: os.path.join(download_dir, txt_filename)
txt_file_path(c) == download_dir \o <<"/">> \o txt_filename(c)

NamingInit ==
    /\ nm_codes \in (LabelsOf(MaxParts) \ {<<>>}) \X (LabelsOf(MaxParts) \ {<<>>})
    /\ nm_paths = <<>>
    /\ nm_pc = "call"
    /\ LoopIdle
    /\ SanIdle
    /\ ProbeIdle
    /\ HarvestIdle
    /\ FsIdle

\* lines 470-489 in the pass for each of the two labels
NameOutputs ==
    /\ nm_pc = "call"
    /\ nm_paths' = <<txt_file_path(nm_codes[1]), txt_file_path(nm_codes[2])>>
    /\ nm_pc' = "done"
    /\ UNCHANGED <<nm_codes, notnaming>>

NamingNext == NameOutputs

SpecNaming == NamingInit /\ [][NamingNext]_vars

\* C13: the output of a record is the file <label>.txt of the output
\* directory, and two records with different labels get different files.
C13_ArtifactNamedByLabel ==
    nm_pc = "done" =>
        /\ nm_codes[1] # nm_codes[2] => nm_paths[1] # nm_paths[2]
        /\ \A k \in 1..2 :
              nm_paths[k] = download_dir \o <<"/">> \o nm_codes[k] \o DotTxt

====
